---- MODULE Spec2Model ----
(***************************************************************************)
(* Hours-of-Service engine of SabaliDev/spotterAi:                         *)
(*   routing/services.py     get_stops_along_route (trip stop planner),    *)
(*                           create_route_for_trip (timeline materializer) *)
(*   tracking/views.py       StartTripView, ChangeELDStatusView            *)
(*   compliance/services.py  get_hos_status (status calculator)            *)
(*                                                                         *)
(* Arithmetic.  The code computes with floats; the model computes the same *)
(* expressions exactly, on integers.  For planner arguments distance (mi)  *)
(* and duration (h) the speed is the fraction SpeedNum/SpeedDen mph; one   *)
(* hour is Hour = 10*SpeedNum model time units and one mile is             *)
(* Mile = 10*SpeedDen model distance units, so that every product and      *)
(* quotient the planner forms (time*avg_speed, distance/avg_speed, the     *)
(* 0.5 h and 0.1 h durations) is an integer.                               *)
(***************************************************************************)
EXTENDS Integers, Sequences, FiniteSets

VARIABLES
    \* arguments of get_stops_along_route
    distance, duration, current_cycle_used, coordinates,
    \* locals of get_stops_along_route and the position of its control
    stops, remaining_distance, elapsed_trip_time, driving_time_in_shift,
    driving_since_last_break, duty_window_elapsed, on_duty_hours_in_cycle,
    current_position_index, ppc,
    \* the Trip row, its ELDLog rows (in creation order) and the wall clock
    trip_status, startDate, current_location, eld_logs, clock,
    \* the last request served: its arguments and the rows it found
    last_op,
    \* ChangeELDStatusView.post requests in flight, one per client
    req,
    \* a get_hos_status call in flight
    hos

plannerVars == <<distance, duration, current_cycle_used, coordinates, stops,
                 remaining_distance, elapsed_trip_time, driving_time_in_shift,
                 driving_since_last_break, duty_window_elapsed,
                 on_duty_hours_in_cycle, current_position_index, ppc>>
tripVars == <<trip_status, startDate, current_location, eld_logs, clock, last_op>>
otherVars == <<tripVars, req, hos>>
vars == <<plannerVars, tripVars, req, hos>>

-----------------------------------------------------------------------------
(* Bounds of the model *)

\* the planner's loop is cut after this many stops (it need not terminate)
MaxStops == 7
\* number of ChangeELDStatus requests served one after the other
MaxChanges == 3
\* the clock advances by 1..MaxStep half hours between two requests
MaxStep == 1

-----------------------------------------------------------------------------
(* Units *)

DEFAULT_SPEED == 65
SpeedNum == IF duration > 0 THEN distance ELSE DEFAULT_SPEED
SpeedDen == IF duration > 0 THEN duration ELSE 1
Hour == 10 * SpeedNum
Mile == 10 * SpeedDen
HalfHour == Hour \div 2

Min(S) == CHOOSE x \in S : \A y \in S : x <= y
Max(S) == CHOOSE x \in S : \A y \in S : x >= y

-----------------------------------------------------------------------------
(* HOS constants, routing/services.py 27-36 and compliance/services.py 7-13 *)

\* driving allowed for the whole of the duty window
DRIVING_UP_TO_THE_WINDOW == 14 * Hour
MAX_DRIVING_HOURS_PER_SHIFT == 11 * Hour
MAX_DUTY_WINDOW == 14 * Hour
MANDATORY_BREAK_DURATION == Hour \div 2
\* the break rule with the limit of the shift rule
BREAK_AFTER_ELEVEN_HOURS == 11 * Hour
DRIVING_HOURS_BEFORE_BREAK == 8 * Hour
REQUIRED_REST_DURATION == 10 * Hour
WEEKLY_LIMIT == 70 * Hour
CYCLE_DAYS == 8
FUEL_STOP_INTERVAL == 1000 * Mile
FUEL_STOP_DURATION == Hour \div 2
PICKUP_DURATION == Hour
DROPOFF_DURATION == Hour
FORCED_CHECK_DURATION == Hour \div 10

-----------------------------------------------------------------------------
(* get_stops_along_route *)

\* line 24
avg_speed ==
    IF duration > 0 THEN (distance * Mile) \div (duration * Hour)
                    ELSE (DEFAULT_SPEED * Mile) \div Hour

\* lines 65-77
time_to_11h_limit == MAX_DRIVING_HOURS_PER_SHIFT - driving_time_in_shift
time_to_14h_limit == MAX_DUTY_WINDOW - duty_window_elapsed
time_to_mandatory_break == DRIVING_HOURS_BEFORE_BREAK - driving_since_last_break
\* the cycle budget taken from a limit of 60 h, which no test of lines 92-97
\* knows
time_to_60h_limit == 60 * Hour - on_duty_hours_in_cycle
time_to_70h_limit == WEEKLY_LIMIT - on_duty_hours_in_cycle

\* the minimum without the budget of the cycle
max_drive_dist_whatever_the_cycle ==
    Min({ remaining_distance,
          time_to_11h_limit * avg_speed,
          time_to_14h_limit * avg_speed,
          time_to_mandatory_break * avg_speed,
          FUEL_STOP_INTERVAL })

\* lines 80-87
max_drive_dist_this_segment ==
    Min({ remaining_distance,
          time_to_11h_limit * avg_speed,
          time_to_14h_limit * avg_speed,
          time_to_mandatory_break * avg_speed,
          time_to_70h_limit * avg_speed,
          FUEL_STOP_INTERVAL })

\* the test without the cycle limit
RestNeededInShift(dshift, dwin, cyc) ==
    \/ dshift >= MAX_DRIVING_HOURS_PER_SHIFT
    \/ dwin >= MAX_DUTY_WINDOW

\* the test of lines 92 and 158, on given counters
RestNeeded(dshift, dwin, cyc) ==
    \/ dshift >= MAX_DRIVING_HOURS_PER_SHIFT
    \/ dwin >= MAX_DUTY_WINDOW
    \/ cyc >= WEEKLY_LIMIT

\* the stop recorded with the time at which it ends
StopEndingAt(reason, dur, idx, at) ==
    [reason |-> reason, duration |-> dur,
     coordinates |-> coordinates[Min({idx, Len(coordinates)})],
     elapsed_time |-> at + dur]

Stop(reason, dur, idx, at) ==
    [reason |-> reason, duration |-> dur,
     coordinates |-> coordinates[Min({idx, Len(coordinates)})],
     elapsed_time |-> at]

\* line 52: coordinates[0] of an empty list raises IndexError while the
\* Pickup stop is built; nothing is returned
PlanRaise ==
    /\ ppc = "pickup"
    /\ coordinates = <<>>
    /\ ppc' = "raised"
    /\ UNCHANGED <<distance, duration, current_cycle_used, coordinates, stops,
                   remaining_distance, elapsed_trip_time, driving_time_in_shift,
                   driving_since_last_break, duty_window_elapsed,
                   on_duty_hours_in_cycle, current_position_index>>
    /\ UNCHANGED otherVars

\* lines 47-57: the Pickup stop
PlanPickup ==
    /\ ppc = "pickup"
    /\ coordinates # <<>>
    /\ stops' = <<Stop("Pickup", PICKUP_DURATION, 1, elapsed_trip_time)>>
    /\ elapsed_trip_time' = elapsed_trip_time + PICKUP_DURATION
    /\ duty_window_elapsed' = duty_window_elapsed + PICKUP_DURATION
    /\ on_duty_hours_in_cycle' = on_duty_hours_in_cycle + PICKUP_DURATION
    /\ ppc' = "loop"
    /\ UNCHANGED <<distance, duration, current_cycle_used, coordinates,
                   remaining_distance, driving_time_in_shift,
                   driving_since_last_break, current_position_index>>
    /\ UNCHANGED otherVars

\* lines 90-132: nothing can be driven, a stop is forced where the truck is
InPlaceReason ==
    IF RestNeeded(driving_time_in_shift, duty_window_elapsed, on_duty_hours_in_cycle)
    THEN "10-Hour Rest Period"
    ELSE IF driving_since_last_break >= DRIVING_HOURS_BEFORE_BREAK
         THEN "30-Minute Break"
         ELSE "Forced Check/Break"

StopDuration(reason) ==
    CASE reason = "10-Hour Rest Period" -> REQUIRED_REST_DURATION
      [] reason = "30-Minute Break" -> MANDATORY_BREAK_DURATION
      [] reason = "Fueling" -> FUEL_STOP_DURATION
      [] reason = "Forced Check/Break" -> FORCED_CHECK_DURATION

\* the shift counters reset after every stop
ResetShiftAfterAnyStop(reason) == TRUE

\* the shift counters never reset
ResetShiftNever(reason) == FALSE

\* lines 128-131 and 200-203
ResetShift(reason) == reason = "10-Hour Rest Period"

PlanStopInPlace ==
    LET stop_reason == InPlaceReason
        stop_duration == StopDuration(stop_reason)
    IN  /\ stops' = Append(stops, Stop(stop_reason, stop_duration,
                                       current_position_index, elapsed_trip_time))
        /\ elapsed_trip_time' = elapsed_trip_time + stop_duration
        /\ driving_since_last_break' = 0
        /\ driving_time_in_shift' =
               IF ResetShift(stop_reason) THEN 0 ELSE driving_time_in_shift
        /\ duty_window_elapsed' =
               IF ResetShift(stop_reason) THEN 0 ELSE duty_window_elapsed
        /\ UNCHANGED <<remaining_distance, on_duty_hours_in_cycle,
                       current_position_index>>

\* lines 158-176: the stop after a driving segment, "" when none is needed
AfterDriveReason(dshift, dwin, cyc, dbreak, seg, rem) ==
    IF RestNeeded(dshift, dwin, cyc) THEN "10-Hour Rest Period"
    ELSE IF dbreak >= DRIVING_HOURS_BEFORE_BREAK THEN "30-Minute Break"
    ELSE IF seg >= FUEL_STOP_INTERVAL /\ rem > 0 THEN "Fueling"
    ELSE ""

\* lines 136-203: drive the segment, then the stop it makes necessary
PlanDrive ==
    LET seg == max_drive_dist_this_segment
        driving_segment_time == seg \div avg_speed
        dshift == driving_time_in_shift + driving_segment_time
        dbreak == driving_since_last_break + driving_segment_time
        dwin == duty_window_elapsed + driving_segment_time
        cyc == on_duty_hours_in_cycle + driving_segment_time
        elapsed == elapsed_trip_time + driving_segment_time
        rem == remaining_distance - seg
        segment_coord_count == (seg * Len(coordinates)) \div (distance * Mile)
        idx == Min({current_position_index + segment_coord_count,
                    Len(coordinates)})
        stop_reason == AfterDriveReason(dshift, dwin, cyc, dbreak, seg, rem)
        stop_needed == stop_reason # ""
        stop_duration == IF stop_needed THEN StopDuration(stop_reason) ELSE 0
        fuel == IF stop_reason = "Fueling" THEN stop_duration ELSE 0
    IN  /\ remaining_distance' = rem
        /\ current_position_index' = idx
        /\ stops' = IF stop_needed
                    THEN Append(stops, Stop(stop_reason, stop_duration, idx, elapsed))
                    ELSE stops
        /\ elapsed_trip_time' = elapsed + stop_duration
        /\ on_duty_hours_in_cycle' = cyc + fuel
        /\ driving_since_last_break' = IF stop_needed THEN 0 ELSE dbreak
        /\ driving_time_in_shift' =
               IF stop_needed /\ ResetShift(stop_reason) THEN 0 ELSE dshift
        /\ duty_window_elapsed' =
               IF stop_needed /\ ResetShift(stop_reason) THEN 0 ELSE dwin + fuel

\* lines 59-203: one iteration of the while loop
PlanIterate ==
    /\ ppc = "loop"
    /\ remaining_distance > 0
    /\ Len(stops) < MaxStops
    /\ IF max_drive_dist_this_segment <= 0 THEN PlanStopInPlace ELSE PlanDrive
    /\ UNCHANGED <<distance, duration, current_cycle_used, coordinates, ppc>>
    /\ UNCHANGED otherVars

\* the Delivery stop with lines 215-217 in force: the dropoff counted in the
\* running totals
PlanDeliveryCounted ==
    /\ ppc = "loop"
    /\ remaining_distance <= 0
    /\ stops' = Append(stops, Stop("Delivery", DROPOFF_DURATION,
                                   Len(coordinates), elapsed_trip_time))
    /\ duty_window_elapsed' = duty_window_elapsed + DROPOFF_DURATION
    /\ on_duty_hours_in_cycle' = on_duty_hours_in_cycle + DROPOFF_DURATION
    /\ elapsed_trip_time' = elapsed_trip_time + DROPOFF_DURATION
    /\ ppc' = "returned"
    /\ UNCHANGED <<distance, duration, current_cycle_used, coordinates,
                   remaining_distance, driving_time_in_shift,
                   driving_since_last_break, current_position_index>>
    /\ UNCHANGED otherVars

\* lines 206-219: the Delivery stop and the return
PlanDelivery ==
    /\ ppc = "loop"
    /\ remaining_distance <= 0
    /\ stops' = Append(stops, Stop("Delivery", DROPOFF_DURATION,
                                   Len(coordinates), elapsed_trip_time))
    /\ ppc' = "returned"
    /\ UNCHANGED <<distance, duration, current_cycle_used, coordinates,
                   remaining_distance, elapsed_trip_time, driving_time_in_shift,
                   driving_since_last_break, duty_window_elapsed,
                   on_duty_hours_in_cycle, current_position_index>>
    /\ UNCHANGED otherVars

-----------------------------------------------------------------------------
(* ELDLog rows *)

\* end_time of a log that is still active (views.py 277, end_time=None)
None == 0 - 1

ELDLog(event_type, start_time, end_time, dur) ==
    [event_type |-> event_type, start_time |-> start_time,
     end_time |-> end_time, duration |-> dur]

\* ELDLog.EVENT_TYPE_CHOICES, read at views.py 244
EVENT_TYPES == {"off_duty", "sleeper_berth", "on_duty", "driving"}

OpenLogs(logs) == { i \in DOMAIN logs : logs[i].end_time = None }

-----------------------------------------------------------------------------
(* create_route_for_trip, lines 289-355 *)

\* lines 326-340
EventTypeOf(stop_reason) ==
    IF stop_reason \in {"Pickup", "Delivery", "Fueling"} THEN "on_duty"
    ELSE "off_duty"

\* every gap logged as driving, the empty one before the Pickup included
AnyGapLogged(driving_duration) == TRUE

\* line 306: driving_duration > 0.001 (hours)
WorthLogging(driving_duration) == driving_duration * 1000 > Hour

\* the logs of the stops when line 355 leaves the stop's duration out of
\* last_elapsed_time
RECURSIVE LogsFromStopStarts(_, _, _, _)
LogsFromStopStarts(ss, i, current_log_time, last_elapsed_time) ==
    IF i > Len(ss) THEN <<>>
    ELSE
      LET stop == ss[i]
          driving_duration == stop.elapsed_time - last_elapsed_time
          drives == WorthLogging(driving_duration)
          drive_end_time == current_log_time + driving_duration
          log_start_time == IF drives THEN drive_end_time ELSE current_log_time
          log_end_time == log_start_time + stop.duration
      IN  (IF drives
           THEN <<ELDLog("driving", current_log_time, drive_end_time, driving_duration)>>
           ELSE <<>>)
          \o <<ELDLog(EventTypeOf(stop.reason), log_start_time, log_end_time,
                      stop.duration)>>
          \o LogsFromStopStarts(ss, i + 1, log_end_time, stop.elapsed_time)

\* lines 297-355: the logs of stops i.. , given the two running markers
RECURSIVE LogsFromStops(_, _, _, _)
LogsFromStops(ss, i, current_log_time, last_elapsed_time) ==
    IF i > Len(ss) THEN <<>>
    ELSE
      LET stop == ss[i]
          driving_duration == stop.elapsed_time - last_elapsed_time
          drives == WorthLogging(driving_duration)
          drive_end_time == current_log_time + driving_duration
          log_start_time == IF drives THEN drive_end_time ELSE current_log_time
          log_end_time == log_start_time + stop.duration
      IN  (IF drives
           THEN <<ELDLog("driving", current_log_time, drive_end_time, driving_duration)>>
           ELSE <<>>)
          \o <<ELDLog(EventTypeOf(stop.reason), log_start_time, log_end_time,
                      stop.duration)>>
          \o LogsFromStops(ss, i + 1, log_end_time,
                           stop.elapsed_time + stop.duration)

\* the start dates a client plans a trip for: a day ago, now, in an hour
StartDates == { clock - 24 * Hour, clock, clock + Hour }

\* TripCreateView.create (views.py 17-36) with create_route_for_trip: the trip
\* is saved as planned with the start date the client gave, the route is
\* stored and the logs of the plan are created from trip.startDate
TripCreate ==
    /\ ppc = "returned"
    /\ trip_status = "none"
    /\ \E start \in StartDates :
          /\ startDate' = start
          /\ eld_logs' = eld_logs \o LogsFromStops(stops, 1, start, 0)
    /\ trip_status' = "planned"
    /\ last_op' = [last_op EXCEPT !.op = "create"]
    /\ UNCHANGED <<plannerVars, current_location, clock, req, hos>>

\* the same when the route provider has no route (services.py 228-229 and
\* 265-267): the trip is saved, no log is created
TripCreateNoRoute ==
    /\ ppc = "pickup"
    /\ trip_status = "none"
    /\ startDate' \in StartDates
    /\ trip_status' = "planned"
    /\ ppc' = "no route"
    /\ last_op' = [last_op EXCEPT !.op = "create"]
    /\ UNCHANGED <<distance, duration, current_cycle_used, coordinates, stops,
                   remaining_distance, elapsed_trip_time, driving_time_in_shift,
                   driving_since_last_break, duty_window_elapsed,
                   on_duty_hours_in_cycle, current_position_index>>
    /\ UNCHANGED <<current_location, eld_logs, clock, req, hos>>

-----------------------------------------------------------------------------
(* tracking/views.py *)

\* timezone.now(): the clock has advanced since the previous request
Nows == { clock + k * HalfHour : k \in 1..MaxStep }

\* StartTripView.post, lines 75-98
StartTrip ==
    /\ trip_status = "planned"
    /\ \E now \in Nows :
          /\ trip_status' = "in_progress"
          /\ startDate' = now
          /\ eld_logs' = Append(eld_logs, ELDLog("on_duty", now, None, Hour))
          /\ clock' = now
          /\ last_op' = [last_op EXCEPT !.op = "start", !.now = now]
    /\ UNCHANGED <<plannerVars, current_location, req, hos>>

\* ELDLog.objects.filter(trip=trip).latest('start_time'), line 254: the rows
\* (by index) that ORDER BY start_time DESC LIMIT 1 may return
LatestByStart(logs) ==
    { i \in DOMAIN logs : \A j \in DOMAIN logs : logs[j].start_time <= logs[i].start_time }

\* the query without its ordering: any row of the trip may come first
AnyRowOrNone(logs) == IF logs = <<>> THEN {0} ELSE DOMAIN logs

\* line 254 with its ELDLog.DoesNotExist (0: no row)
LatestOrNone(logs) == IF logs = <<>> THEN {0} ELSE LatestByStart(logs)

\* lines 261-264: the fetched row with end_time and duration set
Closed(row, now) ==
    [row EXCEPT !.end_time = now, !.duration = now - row.start_time]

\* line 265: latest_log.save()
CloseLog(logs, i, now) == [logs EXCEPT ![i] = Closed(logs[i], now)]

\* lines 273-282 and 296-305
CreateLog(logs, new_status, now) == Append(logs, ELDLog(new_status, now, None, 0))

\* line 257: the status has not changed
SameStatus(row, new_status) == row.event_type = new_status

\* lines 252-311 on the row latest() returned
ChangedLogs(logs, latest, new_status, now) ==
    IF latest = 0 THEN CreateLog(logs, new_status, now)
    ELSE IF SameStatus(logs[latest], new_status) THEN logs
    ELSE IF logs[latest].end_time = None
         THEN CreateLog(CloseLog(logs, latest, now), new_status, now)
         ELSE CreateLog(logs, new_status, now)

\* lines 285-287 and 307-309: trip.current_location = location, on the paths
\* that create a log
ChangedLocation(logs, latest, new_status, location) ==
    IF latest # 0 /\ SameStatus(logs[latest], new_status)
    THEN current_location ELSE location

\* ChangeELDStatusView.post, lines 219-317, served without any other request
\* running
ChangeELDStatus ==
    /\ trip_status = "in_progress"
    /\ last_op.changes < MaxChanges
    /\ \A p \in DOMAIN req : req[p].pc = "idle"
    /\ \E new_status \in EVENT_TYPES, now \in Nows, latest \in LatestOrNone(eld_logs) :
          /\ eld_logs' = ChangedLogs(eld_logs, latest, new_status, now)
          /\ current_location' = ChangedLocation(eld_logs, latest, new_status, "en route")
          /\ clock' = now
          /\ last_op' = [op |-> "change", new_status |-> new_status, now |-> now,
                         changes |-> last_op.changes + 1,
                         before |-> eld_logs, location |-> current_location]
    /\ UNCHANGED <<plannerVars, trip_status, startDate, req, hos>>

\* a get_hos_status call: where it stands and what its scans have found
NoSnapshot == [errors |-> <<>>]
IdleHos == [pc |-> "idle", check_time |-> 0, cycle_total |-> 0, shift_found |-> None,
            driving_in_shift |-> 0,
            last_break |-> [break_found |-> FALSE, last_break_end_time |-> 0],
            driving_since_break |-> 0, today |-> [on_duty |-> 0, driving |-> 0],
            result |-> NoSnapshot]

-----------------------------------------------------------------------------
(* The trip life cycle, one request at a time *)

\* the arguments a trip is planned with: (distance mi, duration h)
Routes == { <<100, 2>>, <<700, 10>>, <<130, 0>> }
CyclesUsed == { 0, 60, 69, 70 }
Polylines == { <<"p0", "p1">>, <<"p0", "p1", "p2", "p3", "p4">> }

NoOp == [op |-> "none", new_status |-> "", now |-> 0, changes |-> 0,
         before |-> <<>>, location |-> ""]

PlannerInit(routes, cycles, polylines) ==
    /\ \E r \in routes : distance = r[1] /\ duration = r[2]
    /\ current_cycle_used \in { c * Hour : c \in cycles }
    /\ coordinates \in polylines
    /\ stops = <<>>
    /\ remaining_distance = distance * Mile
    /\ elapsed_trip_time = 0
    /\ driving_time_in_shift = 0
    /\ driving_since_last_break = 0
    /\ duty_window_elapsed = 0
    /\ on_duty_hours_in_cycle = current_cycle_used
    /\ current_position_index = 1
    /\ ppc = "pickup"

Init ==
    /\ PlannerInit(Routes, CyclesUsed, Polylines)
    /\ trip_status = "none"
    /\ startDate = None
    /\ current_location = "depot"
    /\ eld_logs = <<>>
    /\ clock = 24 * Hour
    /\ last_op = NoOp
    /\ req = <<>>
    /\ hos = IdleHos

Next ==
    \/ PlanPickup
    \/ PlanIterate
    \/ PlanDelivery
    \/ TripCreate
    \/ TripCreateNoRoute
    \/ StartTrip
    \/ ChangeELDStatus

Spec == Init /\ [][Next]_vars

-----------------------------------------------------------------------------
(* compliance/services.py, get_hos_status.  Each operator is one of the     *)
(* function's queries with the loop that consumes it, on the rows `logs`    *)
(* the query returns when it is run.                                        *)

Day == 24 * Hour

RECURSIVE SumSeq(_)
SumSeq(s) == IF s = <<>> THEN 0 ELSE Head(s) + SumSeq(Tail(s))

IsOnDuty(log) == log.event_type \in {"driving", "on_duty"}
IsOffDuty(log) == log.event_type \in {"off_duty", "sleeper_berth"}

\* line 41
CycleStart(check_time) == check_time - CYCLE_DAYS * Day

\* lines 53, 118, 177, 196: log.end_time if log.end_time and
\* log.end_time < check_time else check_time
EffectiveEnd(log, check_time) ==
    IF log.end_time # None /\ log.end_time < check_time THEN log.end_time
    ELSE check_time

\* lines 43-61: cycle_on_duty_seconds
CycleOnDuty(logs, check_time) ==
    LET cycle_start_time == CycleStart(check_time)
        part(log) ==
            LET effective_end_time == EffectiveEnd(log, check_time)
                effective_start_time == Max({log.start_time, cycle_start_time})
            IN  IF /\ log.start_time >= cycle_start_time
                   /\ log.start_time < check_time
                   /\ IsOnDuty(log)
                   /\ effective_end_time > effective_start_time
                THEN effective_end_time - effective_start_time
                ELSE 0
    IN  SumSeq([i \in DOMAIN logs |-> part(logs[i])])

\* order_by('-start_time') of the rows of S; of two rows with the same
\* start_time the one created later comes first
RECURSIVE NewestFirst(_, _)
NewestFirst(logs, S) ==
    IF S = {} THEN <<>>
    ELSE LET i == CHOOSE x \in S : \A y \in S :
                      \/ logs[y].start_time < logs[x].start_time
                      \/ logs[y].start_time = logs[x].start_time /\ y <= x
         IN  <<i>> \o NewestFirst(logs, S \ {i})

\* lines 78 and 151
LogEnd(log, previous_log_start) ==
    IF log.end_time # None /\ log.end_time < previous_log_start THEN log.end_time
    ELSE previous_log_start

\* lines 76-97: the loop over logs_for_shift_search from its k-th row on;
\* None when it ends without a shift start
RECURSIVE ShiftSearch(_, _, _, _, _, _)
ShiftSearch(logs, order, k, accumulated, previous_log_start, check_time) ==
    IF k > Len(order) THEN None
    ELSE
      LET log == logs[order[k]]
          log_end == LogEnd(log, previous_log_start)
          acc == IF IsOffDuty(log) THEN accumulated + (log_end - log.start_time)
                 ELSE 0
      IN  IF IsOffDuty(log) /\ acc >= REQUIRED_REST_DURATION THEN log_end
          ELSE IF log.start_time <= CycleStart(check_time) THEN CycleStart(check_time)
          ELSE ShiftSearch(logs, order, k + 1, acc, log.start_time, check_time)

\* the shift taken to start at midnight of check_time's date
ShiftStartAtMidnight(logs, check_time) == (check_time \div Day) * Day

\* the search that falls back on the start of the cycle window whenever it
\* finds no shift start, not only when a log reaches back that far
ShiftStartOrCycleStart(logs, check_time) ==
    LET found == ShiftSearch(logs,
                     NewestFirst(logs, { i \in DOMAIN logs : logs[i].start_time < check_time }),
                     1, 0, check_time, check_time)
    IN  IF found = None THEN CycleStart(check_time) ELSE found

\* lines 67-97: shift_start_time, None when the search finds none
ShiftStart(logs, check_time) ==
    ShiftSearch(logs,
                NewestFirst(logs, { i \in DOMAIN logs : logs[i].start_time < check_time }),
                1, 0, check_time, check_time)

\* lines 108-126: driving_in_shift_seconds
DrivingInShift(logs, shift_start_time, check_time) ==
    LET part(log) ==
            LET duration_in_shift == EffectiveEnd(log, check_time) - log.start_time
            IN  IF /\ log.start_time >= shift_start_time
                   /\ log.start_time < check_time
                   /\ duration_in_shift > 0
                   /\ log.event_type = "driving"
                THEN duration_in_shift
                ELSE 0
    IN  SumSeq([i \in DOMAIN logs |-> part(logs[i])])

\* lines 149-165: the loop over logs_for_break_search from its k-th row on
RECURSIVE BreakSearch(_, _, _, _, _, _)
BreakSearch(logs, order, k, accumulated, previous_log_start, shift_start_time) ==
    IF k > Len(order)
    THEN [break_found |-> FALSE, last_break_end_time |-> shift_start_time]
    ELSE
      LET log == logs[order[k]]
          log_end_for_break == LogEnd(log, previous_log_start)
          acc == IF IsOffDuty(log)
                 THEN accumulated + (log_end_for_break - log.start_time)
                 ELSE 0
      IN  IF IsOffDuty(log) /\ acc >= MANDATORY_BREAK_DURATION
          THEN [break_found |-> TRUE, last_break_end_time |-> log_end_for_break]
          ELSE BreakSearch(logs, order, k + 1, acc, log.start_time, shift_start_time)

\* lines 136-165
LastBreak(logs, shift_start_time, check_time) ==
    BreakSearch(logs,
                NewestFirst(logs, { i \in DOMAIN logs :
                                      /\ logs[i].start_time >= shift_start_time
                                      /\ logs[i].start_time < check_time }),
                1, 0, check_time, shift_start_time)

\* lines 169-178: driving_since_break_seconds when a break was found
DrivingSince(logs, last_break_end_time, check_time) ==
    LET part(log) ==
            IF /\ log.event_type = "driving"
               /\ log.start_time >= last_break_end_time
               /\ log.start_time < check_time
            THEN EffectiveEnd(log, check_time) - log.start_time
            ELSE 0
    IN  SumSeq([i \in DOMAIN logs |-> part(logs[i])])

\* line 185: midnight of check_time's date
TodayStart(check_time) == (check_time \div Day) * Day

\* lines 186-203: (on_duty_today_seconds, driving_today_seconds); the filter
\* end_time__gt=today_start drops the rows whose end_time is NULL
Today(logs, check_time) ==
    LET today_start == TodayStart(check_time)
        part(log, types) ==
            LET effective_start == Max({log.start_time, today_start})
                duration_today == EffectiveEnd(log, check_time) - effective_start
            IN  IF /\ log.start_time < check_time
                   /\ log.end_time # None
                   /\ log.end_time > today_start
                   /\ duration_today > 0
                   /\ log.event_type \in types
                THEN duration_today
                ELSE 0
    IN  [on_duty |-> SumSeq([i \in DOMAIN logs |-> part(logs[i], {"driving", "on_duty"})]),
         driving |-> SumSeq([i \in DOMAIN logs |-> part(logs[i], {"driving"})])]

\* round(x, 2) of x model time units taken as hours: hundredths of an hour,
\* halves to the even neighbour
Round2(x) ==
    LET q == (x * 100) \div Hour
        r == (x * 100) % Hour
    IN  IF 2 * r < Hour THEN q
        ELSE IF 2 * r > Hour THEN q + 1
        ELSE IF q % 2 = 0 THEN q ELSE q + 1

Clamp(x) == Max({0, x})

\* line 214: a break is needed
BreakDue(driving_since_break) ==
    Clamp(DRIVING_HOURS_BEFORE_BREAK - driving_since_break) <= 0 /\ driving_since_break > 0

\* the tests of lines 211-213 made on the hours as they are returned,
\* rounded to hundredths
ErrorsOfRoundedHours(remaining_driving, remaining_duty_window, remaining_cycle, driving_since_break, latest_type) ==
    (IF Round2(remaining_driving) <= 0
     THEN <<"Driving limit reached or exceeded.">> ELSE <<>>)
    \o (IF Round2(remaining_duty_window) <= 0
        THEN <<"Duty window limit reached or exceeded.">> ELSE <<>>)
    \o (IF Round2(remaining_cycle) <= 0
        THEN <<"Cycle limit reached or exceeded.">> ELSE <<>>)
    \o (IF BreakDue(driving_since_break)
        THEN IF latest_type = "driving"
             THEN <<"Mandatory break required, currently driving.">>
             ELSE <<"Mandatory break required.">>
        ELSE <<>>)

\* lines 210-220: errors, given the type of the row latest('start_time')
\* returned at line 216
Errors(remaining_driving, remaining_duty_window, remaining_cycle, driving_since_break, latest_type) ==
    (IF remaining_driving <= 0 THEN <<"Driving limit reached or exceeded.">> ELSE <<>>)
    \o (IF remaining_duty_window <= 0
        THEN <<"Duty window limit reached or exceeded.">> ELSE <<>>)
    \o (IF remaining_cycle <= 0 THEN <<"Cycle limit reached or exceeded.">> ELSE <<>>)
    \o (IF BreakDue(driving_since_break)
        THEN IF latest_type = "driving"
             THEN <<"Mandatory break required, currently driving.">>
             ELSE <<"Mandatory break required.">>
        ELSE <<>>)

\* lines 99-131, 180-181 and 208-237: the snapshot, from what the scans found
\* (shift_found: the value of shift_start_time after line 97, None included)
Snapshot(check_time, cycle_total, shift_found, driving_in_shift_found, driving_since_break, today, latest_type) ==
    LET shift_start_time == IF shift_found = None THEN check_time ELSE shift_found
        driving_in_shift == IF shift_found = None THEN 0 ELSE driving_in_shift_found
        duty_window_elapsed_hours ==
            IF shift_found = None THEN 0 ELSE check_time - shift_start_time
        remaining_driving == Clamp(MAX_DRIVING_HOURS_PER_SHIFT - driving_in_shift)
        remaining_duty_window == Clamp(MAX_DUTY_WINDOW - duty_window_elapsed_hours)
        remaining_cycle == Clamp(WEEKLY_LIMIT - cycle_total)
        time_until_break == Clamp(DRIVING_HOURS_BEFORE_BREAK - driving_since_break)
    IN  [remaining_driving_hours |-> Round2(remaining_driving),
         remaining_duty_window_hours |-> Round2(remaining_duty_window),
         remaining_cycle_hours |-> Round2(remaining_cycle),
         time_until_break_required |-> Round2(time_until_break),
         on_duty_today |-> Round2(today.on_duty),
         driving_today |-> Round2(today.driving),
         cycle_total_hours |-> Round2(cycle_total),
         shift_start_time |-> shift_start_time,
         driving_in_shift_hours |-> Round2(driving_in_shift),
         duty_window_elapsed_hours |-> Round2(duty_window_elapsed_hours),
         driving_since_last_break_hours |-> Round2(driving_since_break),
         check_time |-> check_time,
         errors |-> Errors(remaining_driving, remaining_duty_window,
                           remaining_cycle, driving_since_break, latest_type)]

\* line 103: the shift start the later scans use
ShiftOrNow(shift_found, check_time) ==
    IF shift_found = None THEN check_time ELSE shift_found

\* lines 168-178
DrivingSinceBreak(logs, last_break, check_time) ==
    IF last_break.break_found
    THEN DrivingSince(logs, last_break.last_break_end_time, check_time)
    ELSE 0

\* get_hos_status(driver, check_time) on one unchanging set of rows: the
\* snapshots it may return (one for each row latest() may pick at line 216)
HosStatus(logs, check_time) ==
    LET shift_found == ShiftStart(logs, check_time)
        shift_start_time == ShiftOrNow(shift_found, check_time)
        since == DrivingSinceBreak(logs,
                     LastBreak(logs, shift_start_time, check_time), check_time)
    IN  { Snapshot(check_time, CycleOnDuty(logs, check_time), shift_found,
                   DrivingInShift(logs, shift_start_time, check_time), since,
                   Today(logs, check_time),
                   IF latest = 0 THEN "" ELSE logs[latest].event_type)
          : latest \in LatestOrNone(logs) }

-----------------------------------------------------------------------------
(* ChangeELDStatusView.post statement by statement: Django runs each ORM    *)
(* call as its own autocommitted statement and the view takes no lock and   *)
(* opens no transaction, so requests of two clients interleave between any  *)
(* two statements.                                                          *)

NoRow == ELDLog("", 0, None, 0)
IdleReq == [pc |-> "idle", new_status |-> "", now |-> 0, latest |-> 0, row |-> NoRow]

\* lines 232-250: the trip is fetched and checked, the input validated and
\* now = timezone.now() taken
ReqBegin(p) ==
    /\ req[p].pc = "idle"
    /\ trip_status = "in_progress"
    /\ \E new_status \in EVENT_TYPES, now \in Nows :
          /\ req' = [req EXCEPT ![p] = [IdleReq EXCEPT !.pc = "latest",
                                        !.new_status = new_status, !.now = now]]
          /\ clock' = now
    /\ UNCHANGED <<plannerVars, trip_status, startDate, current_location,
                   eld_logs, last_op, hos>>

\* lines 254-260 and 293: latest_log is fetched, then compared in memory
ReqLatest(p) ==
    /\ req[p].pc = "latest"
    /\ \E latest \in LatestOrNone(eld_logs) :
          LET row == IF latest = 0 THEN NoRow ELSE eld_logs[latest]
              to == IF latest = 0 THEN "create"
                    ELSE IF SameStatus(row, req[p].new_status) THEN "done"
                    ELSE IF row.end_time = None THEN "close"
                    ELSE "create"
          IN  req' = [req EXCEPT ![p].pc = to, ![p].latest = latest, ![p].row = row]
    /\ UNCHANGED <<plannerVars, tripVars, hos>>

\* lines 261-265: latest_log.save() writes the row as this request holds it
ReqClose(p) ==
    /\ req[p].pc = "close"
    /\ eld_logs' = [eld_logs EXCEPT ![req[p].latest] = Closed(req[p].row, req[p].now)]
    /\ req' = [req EXCEPT ![p].pc = "create"]
    /\ UNCHANGED <<plannerVars, trip_status, startDate, current_location,
                   clock, last_op, hos>>

\* lines 273-282 and 296-305: ELDLog.objects.create
ReqCreate(p) ==
    /\ req[p].pc = "create"
    /\ eld_logs' = CreateLog(eld_logs, req[p].new_status, req[p].now)
    /\ req' = [req EXCEPT ![p].pc = "save trip"]
    /\ UNCHANGED <<plannerVars, trip_status, startDate, current_location,
                   clock, last_op, hos>>

\* lines 285-291 and 307-311: trip.save() and the response
ReqSaveTrip(p) ==
    /\ req[p].pc = "save trip"
    /\ current_location' = "en route"
    /\ req' = [req EXCEPT ![p].pc = "done"]
    /\ UNCHANGED <<plannerVars, trip_status, startDate, eld_logs, clock,
                   last_op, hos>>

\* a trip in progress: started without a route, and possibly with a first
\* change of status to driving served since
StartedLogs(t0) ==
    { <<ELDLog("on_duty", t0, None, Hour)>>,
      CreateLog(CloseLog(<<ELDLog("on_duty", t0, None, Hour)>>, 1, t0 + Hour),
                "driving", t0 + Hour) }

\* the newest log started one of `halfhours` half hours ago
TripInProgress(clients, histories, halfhours) ==
    /\ PlannerInit({<<100, 2>>}, {0}, {<<"p0", "p1">>})
    /\ trip_status = "in_progress"
    /\ startDate = 24 * Hour
    /\ current_location = "depot"
    /\ eld_logs \in histories
    /\ \E k \in halfhours : clock = eld_logs[Len(eld_logs)].start_time + k * HalfHour
    /\ last_op = [NoOp EXCEPT !.before = eld_logs]
    /\ req = [p \in clients |-> IdleReq]

\* two clients, one request each
ConcInit ==
    /\ TripInProgress({1, 2}, StartedLogs(24 * Hour), {4})
    /\ hos = IdleHos

Begin == \E p \in DOMAIN req : ReqBegin(p)
Latest == \E p \in DOMAIN req : ReqLatest(p)
Close == \E p \in DOMAIN req : ReqClose(p)
Create == \E p \in DOMAIN req : ReqCreate(p)
SaveTrip == \E p \in DOMAIN req : ReqSaveTrip(p)

ConcNext == Begin \/ Latest \/ Close \/ Create \/ SaveTrip

ConcSpec == ConcInit /\ [][ConcNext]_vars

-----------------------------------------------------------------------------
(* get_hos_status query by query, while a ChangeELDStatus request runs: the *)
(* querysets are evaluated where the code iterates them, each as its own    *)
(* statement, and nothing holds the rows still between two of them.         *)

\* lines 37-41: check_time = timezone.now()
HosBegin ==
    /\ hos.pc = "idle"
    /\ \E now \in Nows :
          /\ hos' = [hos EXCEPT !.pc = "cycle", !.check_time = now]
          /\ clock' = now
    /\ UNCHANGED <<plannerVars, trip_status, startDate, current_location,
                   eld_logs, last_op, req>>

\* lines 43-62
HosCycle ==
    /\ hos.pc = "cycle"
    /\ hos' = [hos EXCEPT !.pc = "shift",
                          !.cycle_total = CycleOnDuty(eld_logs, hos.check_time)]
    /\ UNCHANGED <<plannerVars, tripVars, req>>

\* lines 67-105
HosShift ==
    /\ hos.pc = "shift"
    /\ LET found == ShiftStart(eld_logs, hos.check_time)
       IN  hos' = [hos EXCEPT !.pc = IF found = None THEN "break" ELSE "shift logs",
                              !.shift_found = found]
    /\ UNCHANGED <<plannerVars, tripVars, req>>

\* lines 108-128
HosShiftLogs ==
    /\ hos.pc = "shift logs"
    /\ hos' = [hos EXCEPT !.pc = "break",
                          !.driving_in_shift =
                              DrivingInShift(eld_logs, hos.shift_found, hos.check_time)]
    /\ UNCHANGED <<plannerVars, tripVars, req>>

\* lines 136-165
HosBreak ==
    /\ hos.pc = "break"
    /\ LET found == LastBreak(eld_logs, ShiftOrNow(hos.shift_found, hos.check_time),
                              hos.check_time)
       IN  hos' = [hos EXCEPT !.pc = IF found.break_found THEN "since break" ELSE "today",
                              !.last_break = found]
    /\ UNCHANGED <<plannerVars, tripVars, req>>

\* lines 168-181
HosSinceBreak ==
    /\ hos.pc = "since break"
    /\ hos' = [hos EXCEPT !.pc = "today",
                          !.driving_since_break =
                              DrivingSinceBreak(eld_logs, hos.last_break, hos.check_time)]
    /\ UNCHANGED <<plannerVars, tripVars, req>>

HosSnapshot(h, latest_type) ==
    Snapshot(h.check_time, h.cycle_total, h.shift_found, h.driving_in_shift,
             h.driving_since_break, h.today, latest_type)

\* lines 185-214 and, when no break is due, 223-237
HosToday ==
    /\ hos.pc = "today"
    /\ LET h == [hos EXCEPT !.today = Today(eld_logs, hos.check_time)]
       IN  hos' = IF BreakDue(h.driving_since_break)
                  THEN [h EXCEPT !.pc = "latest"]
                  ELSE [h EXCEPT !.pc = "done", !.result = HosSnapshot(h, "")]
    /\ UNCHANGED <<plannerVars, tripVars, req>>

\* lines 216-237
HosLatest ==
    /\ hos.pc = "latest"
    /\ \E latest \in LatestOrNone(eld_logs) :
          hos' = [hos EXCEPT !.pc = "done",
                             !.result = HosSnapshot(hos, IF latest = 0 THEN ""
                                                         ELSE eld_logs[latest].event_type)]
    /\ UNCHANGED <<plannerVars, tripVars, req>>

\* a trip whose driver rested ten hours, worked, took a half-hour break and
\* has been driving since
RestedLogs(t0) ==
    << ELDLog("on_duty", t0, t0 + Hour, Hour),
       ELDLog("off_duty", t0 + Hour, t0 + 11 * Hour, 10 * Hour),
       ELDLog("on_duty", t0 + 11 * Hour, t0 + 12 * Hour, Hour),
       ELDLog("off_duty", t0 + 12 * Hour, t0 + 12 * Hour + HalfHour, HalfHour),
       ELDLog("driving", t0 + 12 * Hour + HalfHour, None, 0) >>

HosInit ==
    /\ TripInProgress({1}, StartedLogs(24 * Hour) \cup {RestedLogs(24 * Hour)}, {4, 16})
    /\ hos = IdleHos

HosNext ==
    \/ Begin \/ Latest \/ Close \/ Create \/ SaveTrip
    \/ HosBegin \/ HosCycle \/ HosShift \/ HosShiftLogs \/ HosBreak
    \/ HosSinceBreak \/ HosToday \/ HosLatest

HosSpec == HosInit /\ [][HosNext]_vars

-----------------------------------------------------------------------------
(* get_hos_status as a function of the rows and of check_time *)

\* the logs of one driver: up to MaxHistory closed logs, each starting where
\* the one before ends, then the open one
MaxHistory == 2
Durations == { HalfHour, 2 * Hour, 10 * Hour }

RECURSIVE Histories(_, _, _)
Histories(n, t, last_type) ==
    LET types == EVENT_TYPES \ {last_type}
    IN  { <<ELDLog(ty, t, None, 0)>> : ty \in types }
        \cup (IF n = 0 THEN {}
              ELSE UNION { { <<ELDLog(ty, t, t + d, d)>> \o rest
                             : rest \in Histories(n - 1, t + d, ty) }
                           : ty \in types, d \in Durations })

\* get_hos_status(driver, check_time) with check_time given by the caller
GetHosStatus ==
    /\ hos.pc = "idle"
    /\ \E since \in {HalfHour, 2 * Hour, 9 * Hour} :
          LET check_time == eld_logs[Len(eld_logs)].start_time + since
          IN  \E snapshot \in HosStatus(eld_logs, check_time) :
                 hos' = [hos EXCEPT !.pc = "done", !.check_time = check_time,
                                    !.result = snapshot]
    /\ UNCHANGED <<plannerVars, tripVars, req>>

CalcInit ==
    /\ TripInProgress({1}, Histories(MaxHistory, 24 * Hour, ""), {0})
    /\ hos = IdleHos

CalcSpec == CalcInit /\ [][GetHosStatus]_vars

-----------------------------------------------------------------------------
(* Trips planned and created for routes of every length *)

\* long routes: 1500 mi in 22 h, 2600 mi in 20 h (130 mph) and 2000 mi in
\* 16 h (125 mph: 1000 miles take the 8 h that make a break due)
LongRoutes == { <<1500, 22>>, <<2600, 20>>, <<2000, 16>> }

PlanInit ==
    /\ PlannerInit(Routes \cup LongRoutes, CyclesUsed, Polylines)
    /\ trip_status = "none"
    /\ startDate = None
    /\ current_location = "depot"
    /\ eld_logs = <<>>
    /\ clock = 24 * Hour
    /\ last_op = NoOp
    /\ req = <<>>
    /\ hos = IdleHos

PlanNext == PlanPickup \/ PlanIterate \/ PlanDelivery \/ TripCreate

PlanSpec == PlanInit /\ [][PlanNext]_vars

-----------------------------------------------------------------------------
(* get_stops_along_route called with arguments of any kind *)

\* no distance to cover (pickup and dropoff at the same place: the provider
\* reports distance 0 and duration 0) and a negative distance
EmptyRoutes == { <<0, 0>>, <<0 - 5, 0>> }
\* polylines of fewer than two points
ShortPolylines == { <<>>, <<"p0">> }

InputInit ==
    /\ PlannerInit(Routes \cup EmptyRoutes, CyclesUsed, Polylines \cup ShortPolylines)
    /\ trip_status = "none"
    /\ startDate = None
    /\ current_location = "depot"
    /\ eld_logs = <<>>
    /\ clock = 24 * Hour
    /\ last_op = NoOp
    /\ req = <<>>
    /\ hos = IdleHos

InputNext == PlanRaise \/ PlanPickup \/ PlanIterate \/ PlanDelivery

InputSpec == InputInit /\ [][InputNext]_vars

-----------------------------------------------------------------------------
(* get_hos_status called twice by the same client on the same rows *)

\* logs that last days: a week of duty shows in the cycle scan only
LongDurations == { 35 * Hour, 71 * Hour, 122 * Hour }

RECURSIVE LongHistories(_, _, _)
LongHistories(n, t, last_type) ==
    LET types == EVENT_TYPES \ {last_type}
    IN  { <<ELDLog(ty, t, None, 0)>> : ty \in types }
        \cup (IF n = 0 THEN {}
              ELSE UNION { { <<ELDLog(ty, t, t + d, d)>> \o rest
                             : rest \in LongHistories(n - 1, t + d, ty) }
                           : ty \in types, d \in LongDurations })

\* a driver at the wheel whose next trip has been created: the log of its
\* Pickup starts 22 h after t0, when the driver has been driving for 9.5 h
AheadLogs(t0) ==
    RestedLogs(t0) \o <<ELDLog("on_duty", t0 + 22 * Hour, t0 + 23 * Hour, Hour)>>

\* the rows of a driver: none at all, a few hours of logs, days of them, or
\* logs with those of a planned trip ahead
StatusHistories ==
    {<<>>} \cup Histories(MaxHistory, 24 * Hour, "")
           \cup LongHistories(MaxHistory, 24 * Hour, "")
           \cup {AheadLogs(24 * Hour)}

\* 10.996 h: what is left of 11 h rounds to 0.00
AlmostElevenHours == 11 * Hour - Hour \div 250

\* check_time of the first call: the instant the newest log starts (no log
\* of a single-log history has started before it) or some time after it
CheckTimes ==
    IF eld_logs = <<>> THEN {clock}
    ELSE { eld_logs[Len(eld_logs)].start_time + since
           : since \in {0, HalfHour, 2 * Hour, 9 * Hour, AlmostElevenHours} }

\* no call made yet; `first` keeps what the first call returned
NoCalls == [pc |-> "idle", check_time |-> 0, result |-> NoSnapshot,
            first_time |-> 0, first |-> NoSnapshot]

\* lines 15-237, first call
GetHosStatusFirst ==
    /\ hos.pc = "idle"
    /\ \E check_time \in CheckTimes :
          \E snapshot \in HosStatus(eld_logs, check_time) :
             hos' = [hos EXCEPT !.pc = "done", !.check_time = check_time,
                                !.result = snapshot]
    /\ UNCHANGED <<plannerVars, tripVars, req>>

\* lines 15-237, second call: at the same check_time or later
GetHosStatusAgain ==
    /\ hos.pc = "done"
    /\ \E later \in {0, 2 * Hour, 10 * Hour} :
          LET check_time == hos.check_time + later
          IN  \E snapshot \in HosStatus(eld_logs, check_time) :
                 hos' = [pc |-> "again", check_time |-> check_time,
                         result |-> snapshot, first_time |-> hos.check_time,
                         first |-> hos.result]
    /\ UNCHANGED <<plannerVars, tripVars, req>>

StatusInit ==
    /\ PlannerInit({<<100, 2>>}, {0}, {<<"p0", "p1">>})
    /\ trip_status = "in_progress"
    /\ startDate = 24 * Hour
    /\ current_location = "depot"
    /\ eld_logs \in StatusHistories
    /\ clock = 24 * Hour
    /\ last_op = [NoOp EXCEPT !.before = eld_logs]
    /\ req = <<>>
    /\ hos = NoCalls

StatusNext == GetHosStatusFirst \/ GetHosStatusAgain

StatusSpec == StatusInit /\ [][StatusNext]_vars

-----------------------------------------------------------------------------
(* Properties *)

\* C1: the main loop of get_stops_along_route terminates because every
\* iteration that does not shorten remaining_distance emits a stop that
\* resets the counter that blocked driving, so that driving is possible in
\* the next iteration; this includes the cycle limit being at capacity.
C1_EveryIterationMakesProgress ==
    [][(ppc = "loop" /\ ppc' = "loop" /\ elapsed_trip_time' # elapsed_trip_time)
          => \/ remaining_distance' < remaining_distance
             \/ max_drive_dist_this_segment' > 0]_vars

\* C2: once two concurrent changes of status with different new_status have
\* both completed, exactly one log of the trip has end_time = null.
C2_OneOpenLogAfterConcurrentChanges ==
    ((\A p \in DOMAIN req : req[p].pc = "done")
       /\ req[1].new_status # req[2].new_status)
        => Cardinality(OpenLogs(eld_logs)) = 1

\* C3: of two concurrent changes of status with different new_status taken
\* at t1 < t2, the log opened by the earlier one ends up closed by the later
\* one, with end_time = t2 and duration = t2 - t1.
C3_EarlierLogClosedByLater ==
    ((\A p \in DOMAIN req : req[p].pc = "done")
       /\ req[1].new_status # req[2].new_status)
        => \A p, q \in DOMAIN req :
              (/\ req[p].now < req[q].now
               /\ \A o \in OpenLogs(last_op.before) :
                     last_op.before[o].event_type # req[p].new_status)
                => \E i \in DOMAIN eld_logs :
                      eld_logs[i] = ELDLog(req[p].new_status, req[p].now, req[q].now,
                                           req[q].now - req[p].now)

\* C4: after any sequence of trip creation, StartTrip and changes of status
\* served one at a time, at most one log of the trip has end_time = null.
C4_AtMostOneOpenLog == Cardinality(OpenLogs(eld_logs)) <= 1

\* C5: after any sequence of trip creation, StartTrip and changes of status
\* served one at a time, no two logs of the trip overlap: a log that starts
\* no later than another ends (the open one: at the current instant) no
\* later than the other starts.
C5_NoTwoLogsOverlap ==
    \A i, j \in DOMAIN eld_logs :
        (i # j /\ eld_logs[i].start_time <= eld_logs[j].start_time)
            => (IF eld_logs[i].end_time = None THEN clock ELSE eld_logs[i].end_time)
                   <= eld_logs[j].start_time

\* C6: in every execution, interleaved requests included, no log is ever
\* deleted, and a log that has an end_time keeps its end_time and duration.
C6_ClosedLogsNeverChange ==
    [][\A i \in DOMAIN eld_logs :
          /\ i \in DOMAIN eld_logs'
          /\ eld_logs[i].end_time # None
                => /\ eld_logs'[i].end_time = eld_logs[i].end_time
                   /\ eld_logs'[i].duration = eld_logs[i].duration]_vars

\* C7: a change of status to the type of the trip's currently open log (the
\* open log that started last) creates, closes and modifies no log and
\* leaves the trip as it was.
C7_SameStatusChangesNothing ==
    LET before == last_op.before
        current == { o \in OpenLogs(before) :
                       \A j \in OpenLogs(before) :
                           before[j].start_time <= before[o].start_time }
    IN  (/\ last_op.op = "change"
         /\ \E o \in current : before[o].event_type = last_op.new_status)
            => /\ eld_logs = before
               /\ current_location = last_op.location

\* C8: a change of status at `now` to a status other than the type of the
\* trip's open log closes that log (end_time = now, duration = now -
\* start_time), creates exactly one log (new_status, now, open) and leaves
\* every other log unchanged, whichever log has the greatest start_time.
C8_ChangeClosesOpenLogAndCreatesOne ==
    LET before == last_op.before
    IN  (/\ last_op.op = "change"
         /\ \E o \in OpenLogs(before) :
               /\ OpenLogs(before) = {o}
               /\ before[o].event_type # last_op.new_status)
            => \E o \in OpenLogs(before) :
                  eld_logs = CreateLog(CloseLog(before, o, last_op.now),
                                       last_op.new_status, last_op.now)

\* C9: a get_hos_status call that runs while a change of status is served
\* returns the snapshot of the complete history before the change or that
\* of the complete history after it.
C9_SnapshotOfOneHistory ==
    LET before == last_op.before
        after == IF req[1].pc = "idle" THEN {}
                 ELSE { ChangedLogs(before, latest, req[1].new_status, req[1].now)
                        : latest \in LatestOrNone(before) }
    IN  hos.pc = "done"
            => hos.result \in HosStatus(before, hos.check_time)
                              \cup UNION { HosStatus(logs, hos.check_time)
                                           : logs \in after }

\* C10: for a history of a single open driving log that started d hours
\* before check_time, 0 < d < 8, get_hos_status returns
\* remaining_driving_hours = 11 - d, driving_since_last_break_hours = d and
\* no errors.
C10_SingleOpenDrivingLog ==
    LET d == hos.check_time - eld_logs[1].start_time
    IN  (/\ hos.pc = "done"
         /\ Len(eld_logs) = 1
         /\ eld_logs[1].event_type = "driving"
         /\ eld_logs[1].end_time = None
         /\ 0 < d /\ d < 8 * Hour)
            => /\ hos.result.remaining_driving_hours = Round2(11 * Hour - d)
               /\ hos.result.driving_since_last_break_hours = Round2(d)
               /\ hos.result.errors = <<>>

\* C11: whenever the on-duty time (driving and on_duty logs) inside the 8
\* days before check_time, each log clipped to that window, totals 70 h or
\* more, get_hos_status returns remaining_cycle_hours = 0 and the errors
\* contain the cycle limit message.
C11_CycleLimitReported ==
    LET now == hos.check_time
        clipped(log) ==
            LET from == Max({log.start_time, CycleStart(now)})
                to == IF log.end_time = None \/ log.end_time > now THEN now
                      ELSE log.end_time
            IN  IF IsOnDuty(log) /\ to > from THEN to - from ELSE 0
        total == SumSeq([i \in DOMAIN eld_logs |-> clipped(eld_logs[i])])
    IN  (hos.pc # "idle" /\ total >= 70 * Hour)
            => /\ hos.result.remaining_cycle_hours = 0
               /\ \E k \in DOMAIN hos.result.errors :
                     hos.result.errors[k] = "Cycle limit reached or exceeded."

\* C12: a get_hos_status call with no log that started before check_time
\* returns shift_start_time = check_time, remaining_driving_hours = 11,
\* remaining_duty_window_hours = 14, remaining_cycle_hours = 70,
\* time_until_break_required = 8 (in hundredths of an hour below) and no
\* errors.
C12_FreshDriver ==
    (/\ hos.pc # "idle"
     /\ \A i \in DOMAIN eld_logs : eld_logs[i].start_time >= hos.check_time)
        => /\ hos.result.shift_start_time = hos.check_time
           /\ hos.result.remaining_driving_hours = 1100
           /\ hos.result.remaining_duty_window_hours = 1400
           /\ hos.result.remaining_cycle_hours = 7000
           /\ hos.result.time_until_break_required = 800
           /\ hos.result.errors = <<>>

\* C12 happens: a call on a driver without any log has returned
C12_CalledWithoutLogs ==
    /\ hos.pc = "done"
    /\ eld_logs = <<>>
    /\ hos.result.check_time = hos.check_time

\* C13 as stated: for the same logs and check times now1 <= now2,
\* remaining_driving_hours of the call at now2 is at most that of the call
\* at now1 (no log is inserted between the calls).
C13_RemainingDrivingNeverGrows ==
    hos.pc = "again"
        => hos.result.remaining_driving_hours <= hos.first.remaining_driving_hours

\* C13 amended: the same, provided that every off_duty or sleeper_berth log
\* has ended by now1 (or starts at now2 or later) and that no log started at
\* or before the start of the cycle window of now2.
C13_RemainingDrivingNeverGrowsWithoutRest ==
    (/\ hos.pc = "again"
     /\ \A i \in DOMAIN eld_logs :
           /\ IsOffDuty(eld_logs[i])
                 => \/ eld_logs[i].end_time # None
                       /\ eld_logs[i].end_time <= hos.first_time
                    \/ eld_logs[i].start_time >= hos.check_time
           /\ eld_logs[i].start_time > CycleStart(hos.check_time))
        => hos.result.remaining_driving_hours <= hos.first.remaining_driving_hours

\* C13 happens: after a rest that has ended, driving went on between the
\* two calls and the second call returns less than the first
C13_DrivingWentOn ==
    /\ hos.pc = "again"
    /\ \A i \in DOMAIN eld_logs :
          /\ IsOffDuty(eld_logs[i])
                => eld_logs[i].end_time # None /\ eld_logs[i].end_time <= hos.first_time
          /\ eld_logs[i].start_time > CycleStart(hos.check_time)
    /\ hos.first_time < hos.check_time
    /\ hos.result.remaining_driving_hours < hos.first.remaining_driving_hours

C15_PickupFirstDeliveryLast ==
    [][/\ (ppc = "pickup" /\ ppc' = "loop")
            => /\ duty_window_elapsed' = duty_window_elapsed + Hour
               /\ on_duty_hours_in_cycle' = on_duty_hours_in_cycle + Hour
       /\ (ppc = "loop" /\ ppc' = "returned")
            => UNCHANGED <<elapsed_trip_time, driving_time_in_shift,
                           driving_since_last_break, duty_window_elapsed,
                           on_duty_hours_in_cycle>>
       /\ ppc' = "returned"
            => LET n == Len(stops')
               IN  /\ n >= 2
                   /\ stops'[1] = [reason |-> "Pickup", duration |-> Hour,
                                   coordinates |-> coordinates[1],
                                   elapsed_time |-> 0]
                   /\ stops'[n].reason = "Delivery"
                   /\ stops'[n].duration = Hour
                   /\ stops'[n].coordinates = coordinates[Len(coordinates)]
                   /\ \A i \in 2..(n - 1) :
                         stops'[i].reason \notin {"Pickup", "Delivery"}]_vars

\* C15 happens: a plan with stops between Pickup and Delivery was returned
C15_PlanReturned == ppc = "returned" /\ Len(stops) > 2

\* C16: right after a 10-Hour Rest Period stop driving_time_in_shift,
\* duty_window_elapsed and driving_since_last_break are 0; right after a
\* 30-Minute Break stop driving_since_last_break is 0 and the other two have
\* the values they had when the break began.
C16_CountersAfterStop ==
    [][(ppc = "loop" /\ ppc' = "loop" /\ Len(stops') = Len(stops) + 1)
          => LET stop == stops'[Len(stops')]
                 driven == stop.elapsed_time - elapsed_trip_time
             IN  /\ stop.reason = "10-Hour Rest Period"
                      => /\ driving_time_in_shift' = 0
                         /\ duty_window_elapsed' = 0
                         /\ driving_since_last_break' = 0
                 /\ stop.reason = "30-Minute Break"
                      => /\ driving_since_last_break' = 0
                         /\ driving_time_in_shift' = driving_time_in_shift + driven
                         /\ duty_window_elapsed' = duty_window_elapsed + driven]_vars

\* C16 happens: the plan has a 30-Minute Break, a 10-Hour Rest Period has
\* just been emitted and distance remains
C16_RestAfterBreak ==
    /\ ppc = "loop"
    /\ remaining_distance > 0
    /\ stops[Len(stops)].reason = "10-Hour Rest Period"
    /\ \E i \in DOMAIN stops : stops[i].reason = "30-Minute Break"
    /\ driving_time_in_shift = 0

\* C17: for 700 mi in 10 h with no cycle hours used the plan is Pickup, a
\* 30-Minute Break, Delivery in this order, at least 3 stops, no 10-Hour
\* Rest Period; the break comes after 8 h of driving: 560 mi driven,
\* elapsed_time 9 h.
C17_ScenarioA ==
    [][(distance = 700 /\ duration = 10 /\ current_cycle_used = 0)
          => /\ (ppc = "loop" /\ ppc' = "loop" /\ Len(stops') = Len(stops) + 1)
                  => /\ stops'[Len(stops')].reason = "30-Minute Break"
                     /\ stops'[Len(stops')].elapsed_time = 9 * Hour
                     /\ remaining_distance' = (700 - 560) * Mile
             /\ ppc' = "returned"
                  => /\ Len(stops') >= 3
                     /\ stops'[1].reason = "Pickup"
                     /\ stops'[2].reason = "30-Minute Break"
                     /\ stops'[Len(stops')].reason = "Delivery"
                     /\ \A i \in DOMAIN stops' :
                           stops'[i].reason # "10-Hour Rest Period"]_vars

\* C17 happens: the plan of 700 mi in 10 h was returned
C17_ScenarioAPlanned ==
    /\ ppc = "returned"
    /\ distance = 700 /\ duration = 10 /\ current_cycle_used = 0
    /\ Len(stops) = 3

\* C18: for 1500 mi in 22 h with no cycle hours used the plan has a 10-Hour
\* Rest Period before Delivery; each is emitted when driving_time_in_shift
\* has reached 11 h or duty_window_elapsed 14 h, and both counters are 0
\* after it.
C18_ScenarioBRest ==
    [][(distance = 1500 /\ duration = 22 /\ current_cycle_used = 0)
          => /\ (/\ ppc = "loop" /\ ppc' = "loop"
                 /\ Len(stops') = Len(stops) + 1
                 /\ stops'[Len(stops')].reason = "10-Hour Rest Period")
                  => LET driven == stops'[Len(stops')].elapsed_time - elapsed_trip_time
                     IN  /\ \/ driving_time_in_shift + driven >= 11 * Hour
                            \/ duty_window_elapsed + driven >= 14 * Hour
                         /\ driving_time_in_shift' = 0
                         /\ duty_window_elapsed' = 0
             /\ ppc' = "returned"
                  => \E i \in 1..(Len(stops') - 1) :
                        stops'[i].reason = "10-Hour Rest Period"]_vars

\* C18 happens: the plan of 1500 mi in 22 h was returned with a rest in it
C18_ScenarioBPlanned ==
    /\ ppc = "returned"
    /\ distance = 1500 /\ duration = 22 /\ current_cycle_used = 0
    /\ \E i \in DOMAIN stops : stops[i].reason = "10-Hour Rest Period"

\* C19: the plan of a trip longer than 1000 mi (1500 mi in 22 h among them)
\* has a Fueling stop.
C19_FuelingOnLongTrips ==
    (ppc = "returned" /\ distance > 1000)
        => \E i \in DOMAIN stops : stops[i].reason = "Fueling"

\* C20 as stated: the durations of the driving logs created for a planned
\* trip add up to the trip's duration, up to 0.001 h for each stop.
C20_DrivingLogsAddUpToDuration ==
    LET driving == SumSeq([i \in DOMAIN eld_logs |->
                             IF eld_logs[i].event_type = "driving"
                             THEN eld_logs[i].duration ELSE 0])
        off == driving - duration * Hour
    IN  (trip_status = "planned" /\ ppc = "returned")
            => Max({off, 0 - off}) * 1000 <= Len(stops) * Hour

\* C20 amended: they add up to the trip's duration when it is positive and
\* to distance / 65 h when it is zero, up to 0.001 h for each stop.
C20_DrivingLogsAddUpToDrivingTime ==
    LET driving == SumSeq([i \in DOMAIN eld_logs |->
                             IF eld_logs[i].event_type = "driving"
                             THEN eld_logs[i].duration ELSE 0])
        off == IF duration > 0 THEN driving - duration * Hour
               ELSE driving * 65 - distance * Hour
        parts == IF duration > 0 THEN 1 ELSE 65
    IN  (trip_status = "planned" /\ ppc = "returned")
            => Max({off, 0 - off}) * 1000 <= parts * Len(stops) * Hour

\* C20 happens: a trip with a positive duration was created with several
\* driving logs
C20_TripWithDrivingLogs ==
    /\ trip_status = "planned"
    /\ ppc = "returned"
    /\ duration > 0
    /\ Cardinality({ i \in DOMAIN eld_logs : eld_logs[i].event_type = "driving" }) > 1

\* C21: the logs created for a planned trip are contiguous: the first starts
\* at the trip's start date, every later one starts when the one before
\* ends, every log is closed with end_time > start_time (so no driving log
\* has zero length) and its duration is its length.
C21_LogsOfPlanContiguous ==
    (trip_status = "planned" /\ ppc = "returned")
        => /\ eld_logs # <<>>
           /\ eld_logs[1].start_time = startDate
           /\ \A i \in DOMAIN eld_logs :
                 /\ eld_logs[i].end_time # None
                 /\ eld_logs[i].end_time > eld_logs[i].start_time
                 /\ eld_logs[i].duration = eld_logs[i].end_time - eld_logs[i].start_time
                 /\ i > 1 => eld_logs[i].start_time = eld_logs[i - 1].end_time

\* C21 happens: the logs of a plan with a break and a rest were created,
\* driving logs between the logs of the stops
C21_LogsOfLongPlanCreated ==
    /\ trip_status = "planned"
    /\ ppc = "returned"
    /\ Len(eld_logs) > Len(stops) + 2
    /\ \E i \in DOMAIN stops : stops[i].reason = "10-Hour Rest Period"
    /\ \E i \in DOMAIN stops : stops[i].reason = "30-Minute Break"

\* C22: get_stops_along_route called with distance <= 0 or with a polyline
\* of fewer than 2 points reports an error before any stop is emitted and
\* never returns a plan.
C22_InvalidInputFailsFast ==
    (distance <= 0 \/ Len(coordinates) < 2)
        => /\ stops = <<>>
           /\ ppc \in {"pickup", "raised"}

\* C23 as stated: the errors of a snapshot are in the order driving, duty
\* window, cycle, break, and hold the driving limit message iff
\* remaining_driving_hours is 0, the duty window message iff
\* remaining_duty_window_hours is 0 and the cycle message iff
\* remaining_cycle_hours is 0.
C23_ErrorsMatchSnapshot ==
    LET r == hos.result
        e == r.errors
        has(m) == \E k \in DOMAIN e : e[k] = m
        rank(m) == CASE m = "Driving limit reached or exceeded." -> 1
                     [] m = "Duty window limit reached or exceeded." -> 2
                     [] m = "Cycle limit reached or exceeded." -> 3
                     [] OTHER -> 4
    IN  hos.pc # "idle"
            => /\ \A j, k \in DOMAIN e : j < k => rank(e[j]) < rank(e[k])
               /\ has("Driving limit reached or exceeded.")
                      <=> r.remaining_driving_hours = 0
               /\ has("Duty window limit reached or exceeded.")
                      <=> r.remaining_duty_window_hours = 0
               /\ has("Cycle limit reached or exceeded.")
                      <=> r.remaining_cycle_hours = 0

\* C23 amended: the same with each message present iff the remaining time
\* is 0 before it is rounded; a message present, the hours returned are 0,
\* and hours returned above 0, the message is absent.
C23_ErrorsMatchRemainders ==
    LET r == hos.result
        e == r.errors
        has(m) == \E k \in DOMAIN e : e[k] = m
        rank(m) == CASE m = "Driving limit reached or exceeded." -> 1
                     [] m = "Duty window limit reached or exceeded." -> 2
                     [] m = "Cycle limit reached or exceeded." -> 3
                     [] OTHER -> 4
        now == hos.check_time
        found == ShiftStart(eld_logs, now)
        driving == IF found = None THEN 0 ELSE DrivingInShift(eld_logs, found, now)
        window == IF found = None THEN 0 ELSE now - found
    IN  hos.pc # "idle"
            => /\ \A j, k \in DOMAIN e : j < k => rank(e[j]) < rank(e[k])
               /\ has("Driving limit reached or exceeded.")
                      <=> driving >= MAX_DRIVING_HOURS_PER_SHIFT
               /\ has("Duty window limit reached or exceeded.")
                      <=> window >= MAX_DUTY_WINDOW
               /\ has("Cycle limit reached or exceeded.")
                      <=> CycleOnDuty(eld_logs, now) >= WEEKLY_LIMIT
               /\ has("Driving limit reached or exceeded.")
                      => r.remaining_driving_hours = 0
               /\ has("Duty window limit reached or exceeded.")
                      => r.remaining_duty_window_hours = 0
               /\ has("Cycle limit reached or exceeded.")
                      => r.remaining_cycle_hours = 0

\* C23 happens: a snapshot was returned with several messages, and another
\* with 0.00 h of driving left and no driving limit message
C23_SeveralErrors ==
    /\ hos.pc = "again"
    /\ Len(hos.result.errors) >= 3
    /\ hos.first.remaining_driving_hours = 0
    /\ \A k \in DOMAIN hos.first.errors :
          hos.first.errors[k] # "Driving limit reached or exceeded."

\* C24: cycle_total_hours is the total length of the parts of the driving
\* and on_duty logs that lie in [check_time - 8 days, check_time), an open
\* log taken to end at check_time; a log that starts before the window and
\* ends inside it counts with the part inside.
C24_CycleTotalIsClippedOnDutyTime ==
    LET now == hos.check_time
        inside(log) ==
            LET from == Max({log.start_time, CycleStart(now)})
                to == IF log.end_time = None THEN now
                      ELSE Min({log.end_time, now})
            IN  IF IsOnDuty(log) /\ to > from THEN to - from ELSE 0
    IN  hos.pc # "idle"
            => hos.result.cycle_total_hours
                   = Round2(SumSeq([i \in DOMAIN eld_logs |-> inside(eld_logs[i])]))

\* C25: when the logs started before check_time contain a run of
\* consecutive off_duty or sleeper_berth logs of 10 h or more in total (a
\* run is bounded by on_duty or driving logs), shift_start_time is the end
\* of the last log of the most recent such run, whether the run is one log
\* or several.
C25_ShiftStartsWhenRestEnded ==
    LET now == hos.check_time
        before == { i \in DOMAIN eld_logs : eld_logs[i].start_time < now }
        ended(i) == IF eld_logs[i].end_time = None \/ eld_logs[i].end_time > now
                    THEN now ELSE eld_logs[i].end_time
        run(i, j) ==
            /\ i <= j
            /\ \A k \in i..j : IsOffDuty(eld_logs[k])
            /\ (i - 1) \in before => ~IsOffDuty(eld_logs[i - 1])
            /\ (j + 1) \in before => ~IsOffDuty(eld_logs[j + 1])
        length(i, j) ==
            SumSeq([k \in 1..(j - i + 1) |->
                      ended(i + k - 1) - eld_logs[i + k - 1].start_time])
        rests == { q \in before \X before :
                     run(q[1], q[2]) /\ length(q[1], q[2]) >= REQUIRED_REST_DURATION }
    IN  (hos.pc # "idle" /\ rests # {})
            => hos.result.shift_start_time = ended(Max({ q[2] : q \in rests }))

\* C26: an iteration that drives a segment emits at most one stop; with the
\* counters as they are after the segment, the stop is a 10-Hour Rest
\* Period whenever driving_time_in_shift >= 11 h, duty_window_elapsed >=
\* 14 h or on_duty_hours_in_cycle >= 70 h; it is a 30-Minute Break only
\* when none of these holds and driving_since_last_break >= 8 h; it is a
\* Fueling stop only when neither is due, the segment was 1000 miles and
\* distance remains.
C26_StopPriority ==
    [][(ppc = "loop" /\ remaining_distance' < remaining_distance)
          => LET seg == remaining_distance - remaining_distance'
                 driven == seg \div avg_speed
                 rest == \/ driving_time_in_shift + driven >= 11 * Hour
                         \/ duty_window_elapsed + driven >= 14 * Hour
                         \/ on_duty_hours_in_cycle + driven >= 70 * Hour
                 break == driving_since_last_break + driven >= 8 * Hour
                 emitted == Len(stops') - Len(stops)
                 reason == IF emitted = 1 THEN stops'[Len(stops')].reason ELSE ""
             IN  /\ emitted \in {0, 1}
                 /\ rest => reason = "10-Hour Rest Period"
                 /\ reason = "10-Hour Rest Period" => rest
                 /\ reason = "30-Minute Break" => ~rest /\ break
                 /\ reason = "Fueling"
                       => /\ ~rest /\ ~break
                          /\ seg = 1000 * Mile
                          /\ remaining_distance' > 0
                 /\ reason \in {"", "10-Hour Rest Period", "30-Minute Break", "Fueling"}]_vars

\* C26 happens: a plan with a Fueling stop and a 10-Hour Rest Period was
\* returned
C26_FuelAndRestPlanned ==
    /\ ppc = "returned"
    /\ \E i \in DOMAIN stops : stops[i].reason = "Fueling"
    /\ \E i \in DOMAIN stops : stops[i].reason = "10-Hour Rest Period"

\* C27: for distance > 0, duration >= 0 and 0 <= current_cycle_used <= 70,
\* whenever the drivable distance of an iteration is <= 0 one of the four
\* limits is at capacity (11 h driving, 14 h window, 70 h cycle, 8 h since
\* the last break), and no plan has a 'Forced Check/Break' stop.
C27_NoForcedCheck ==
    /\ \A i \in DOMAIN stops : stops[i].reason # "Forced Check/Break"
    /\ (ppc = "loop" /\ remaining_distance > 0 /\ max_drive_dist_this_segment <= 0)
          => \/ driving_time_in_shift >= 11 * Hour
             \/ duty_window_elapsed >= 14 * Hour
             \/ on_duty_hours_in_cycle >= 70 * Hour
             \/ driving_since_last_break >= 8 * Hour

\* C27 happens: nothing can be driven right after the Pickup, a stop was
\* emitted where the truck stood, and still nothing can be driven
C27_StoppedInPlace ==
    /\ ppc = "loop"
    /\ remaining_distance = distance * Mile
    /\ Len(stops) >= 2
    /\ stops[2].elapsed_time = PICKUP_DURATION
    /\ max_drive_dist_this_segment <= 0

\* C28: with the driving time since the last qualifying break (the most
\* recent run of off_duty or sleeper_berth logs of 30 minutes or more; all
\* the driving when there is none) taken at check_time: when it has reached
\* 8 h the errors hold 'Mandatory break required, currently driving.' if
\* the driver's most recent log is a driving log and 'Mandatory break
\* required.' otherwise; when it is below 8 h they hold neither.
C28_BreakMessage ==
    LET now == hos.check_time
        before == { i \in DOMAIN eld_logs : eld_logs[i].start_time < now }
        ended(i) == IF eld_logs[i].end_time = None \/ eld_logs[i].end_time > now
                    THEN now ELSE eld_logs[i].end_time
        run(i, j) ==
            /\ i <= j
            /\ \A k \in i..j : IsOffDuty(eld_logs[k])
            /\ (i - 1) \in before => ~IsOffDuty(eld_logs[i - 1])
            /\ (j + 1) \in before => ~IsOffDuty(eld_logs[j + 1])
        length(i, j) ==
            SumSeq([k \in 1..(j - i + 1) |->
                      ended(i + k - 1) - eld_logs[i + k - 1].start_time])
        breaks == { q \in before \X before :
                      run(q[1], q[2]) /\ length(q[1], q[2]) >= MANDATORY_BREAK_DURATION }
        from == IF breaks = {} THEN 0 ELSE ended(Max({ q[2] : q \in breaks }))
        driven(i) ==
            IF i \in before /\ eld_logs[i].event_type = "driving"
            THEN Max({0, ended(i) - Max({eld_logs[i].start_time, from})})
            ELSE 0
        driving == SumSeq([i \in DOMAIN eld_logs |-> driven(i)])
        e == hos.result.errors
        has(m) == \E k \in DOMAIN e : e[k] = m
        active == "Mandatory break required, currently driving."
        due == "Mandatory break required."
    IN  (hos.pc # "idle" /\ eld_logs # <<>>)
            => IF driving >= 8 * Hour
               THEN IF eld_logs[Len(eld_logs)].event_type = "driving"
                    THEN has(active) /\ ~has(due)
                    ELSE has(due) /\ ~has(active)
               ELSE ~has(active) /\ ~has(due)

\* C29: on_duty_today is the total length of the parts of the driving and
\* on_duty logs that lie in [midnight of check_time's date, check_time),
\* driving_today that of the driving logs; a log still open at check_time
\* counts from max(start_time, midnight) to check_time.
C29_TodayTotals ==
    LET now == hos.check_time
        midnight == (now \div Day) * Day
        today(log, types) ==
            LET from == Max({log.start_time, midnight})
                to == IF log.end_time = None THEN now
                      ELSE Min({log.end_time, now})
            IN  IF log.event_type \in types /\ to > from THEN to - from ELSE 0
        total(types) == SumSeq([i \in DOMAIN eld_logs |-> today(eld_logs[i], types)])
    IN  hos.pc # "idle"
            => /\ hos.result.on_duty_today = Round2(total({"driving", "on_duty"}))
               /\ hos.result.driving_today = Round2(total({"driving"}))

\* C30: every driving segment of a plan ends no later than 14 h of
\* elapsed_time (the time of a 30-Minute Break and of a Fueling stop
\* included) after the start of the trip or, when the plan has one, after
\* the end of the most recent 10-Hour Rest Period.
C30_DrivingEndsInsideWindow ==
    [][(ppc = "loop" /\ remaining_distance' < remaining_distance)
          => LET rests == { i \in DOMAIN stops : stops[i].reason = "10-Hour Rest Period" }
                 last == stops[Max(rests)]
                 shift_start == IF rests = {} THEN 0
                                ELSE last.elapsed_time + last.duration
                 driven == (remaining_distance - remaining_distance') \div avg_speed
             IN  elapsed_trip_time + driven - shift_start <= 14 * Hour]_vars

\* C30 happens: a shift with a 30-Minute Break in it, which the planner's
\* duty window does not count, ended 12.5 h after the start of the trip
C30_ShiftWithBreakEnded ==
    \E i \in DOMAIN stops :
        /\ stops[i].reason = "10-Hour Rest Period"
        /\ stops[i].elapsed_time = 12 * Hour + HalfHour
        /\ \E j \in 1..(i - 1) : stops[j].reason = "30-Minute Break"

\* C31: in the stops of a plan, the driving time between two consecutive
\* off-duty stops (30-Minute Break or 10-Hour Rest Period), or between the
\* start of the trip and the first of them, is at most 8 h, a Fueling stop
\* in between not restarting the count; the driving time between two
\* consecutive 10-Hour Rest Periods, or before the first, is at most 11 h.
C31_DrivingBetweenOffDutyStops ==
    LET gap(k) == stops[k].elapsed_time
                      - (stops[k - 1].elapsed_time + stops[k - 1].duration)
        driving(p, i) == SumSeq([k \in 1..(i - p) |-> gap(p + k)])
        since(kinds, i) ==
            LET earlier == { p \in 1..(i - 1) : stops[p].reason \in kinds }
            IN  driving(IF earlier = {} THEN 1 ELSE Max(earlier), i)
    IN  \A i \in DOMAIN stops :
           /\ stops[i].reason \in {"30-Minute Break", "10-Hour Rest Period"}
                 => since({"30-Minute Break", "10-Hour Rest Period"}, i) <= 8 * Hour
           /\ stops[i].reason = "10-Hour Rest Period"
                 => since({"10-Hour Rest Period"}, i) <= 11 * Hour

\* C32 as stated: for 0 <= current_cycle_used <= 70, on_duty_hours_in_cycle
\* (cycle used, Pickup, driving and Fueling time) never exceeds 70 h, and no
\* segment is driven while it is 70 h or more.
C32_CycleNeverAboveLimit ==
    /\ on_duty_hours_in_cycle <= 70 * Hour
    /\ (ppc = "loop" /\ remaining_distance > 0 /\ on_duty_hours_in_cycle >= 70 * Hour)
          => max_drive_dist_this_segment <= 0

\* C32 amended: no segment is driven while on_duty_hours_in_cycle is 70 h
\* or more and no segment takes it above 70 h; the hour of the Pickup and
\* the half hour of a Fueling stop are added whatever the total, which
\* never exceeds 71 h.
C32_DrivingNeverTakesCycleAboveLimit ==
    [][/\ (ppc = "loop" /\ remaining_distance' < remaining_distance)
            => LET driven == (remaining_distance - remaining_distance') \div avg_speed
               IN  /\ on_duty_hours_in_cycle < 70 * Hour
                   /\ on_duty_hours_in_cycle + driven <= 70 * Hour
       /\ on_duty_hours_in_cycle' <= 71 * Hour
       /\ on_duty_hours_in_cycle' > 70 * Hour
            => \/ on_duty_hours_in_cycle > 70 * Hour
               \/ stops'[Len(stops')].reason \in {"Pickup", "Fueling"}]_vars

\* C32 happens: driving has brought the cycle to 70 h with distance left,
\* and a 10-Hour Rest Period was emitted
C32_CycleReachedByDriving ==
    /\ ppc = "loop"
    /\ on_duty_hours_in_cycle = 70 * Hour
    /\ remaining_distance > 0
    /\ remaining_distance < distance * Mile
    /\ stops[Len(stops)].reason = "10-Hour Rest Period"

\* C33: the stops of a plan are in the order of simulated time and do not
\* overlap: each stop's elapsed_time is at least the elapsed_time of the
\* stop before plus that stop's duration (no driving gap is negative), and
\* the elapsed_time of the Delivery stop is 1 h of Pickup plus the driving
\* time of the whole distance plus the durations of the stops in between.
C33_StopsInOrderOfTime ==
    LET n == Len(stops)
    IN  /\ \A i \in 2..n :
              stops[i].elapsed_time
                  >= stops[i - 1].elapsed_time + stops[i - 1].duration
        /\ ppc = "returned"
              => stops[n].elapsed_time
                     = Hour + (distance * Mile) \div avg_speed
                            + SumSeq([k \in 1..(n - 2) |-> stops[k + 1].duration])

\* C33 happens: a plan with a break and two rests between Pickup and
\* Delivery was returned
C33_PlanWithSeveralStopsReturned ==
    /\ ppc = "returned"
    /\ Len(stops) >= 5
    /\ \E i \in DOMAIN stops : stops[i].reason = "30-Minute Break"
    /\ Cardinality({ i \in DOMAIN stops : stops[i].reason = "10-Hour Rest Period" }) >= 2

\* C34: get_hos_status(driver, check_time) depends only on the logs that
\* start before check_time: the snapshot, errors included, is the one the
\* call returns on the history without the logs that start at check_time
\* or later.
C34_OnlyEarlierLogsMatter ==
    LET now == hos.check_time
        earlier(log) == log.start_time < now
    IN  hos.pc # "idle"
            => hos.result \in HosStatus(SelectSeq(eld_logs, earlier), now)

\* C35: when no run of off_duty or sleeper_berth logs covers 30 minutes or
\* more of the current shift (from shift_start_time to check_time),
\* driving_since_last_break_hours is the driving time since the start of
\* the shift; when that is 8 h or more, time_until_break_required is 0 and
\* the errors hold a mandatory break message.
C35_NoBreakInShift ==
    LET now == hos.check_time
        shift == hos.result.shift_start_time
        before == { i \in DOMAIN eld_logs : eld_logs[i].start_time < now }
        ended(i) == IF eld_logs[i].end_time = None \/ eld_logs[i].end_time > now
                    THEN now ELSE eld_logs[i].end_time
        inshift(i) == Max({0, ended(i) - Max({eld_logs[i].start_time, shift})})
        run(i, j) ==
            /\ i <= j
            /\ \A k \in i..j : IsOffDuty(eld_logs[k])
        length(i, j) == SumSeq([k \in 1..(j - i + 1) |-> inshift(i + k - 1)])
        breaks == { q \in before \X before :
                      run(q[1], q[2]) /\ length(q[1], q[2]) >= MANDATORY_BREAK_DURATION }
        driving == SumSeq([i \in DOMAIN eld_logs |->
                             IF i \in before /\ eld_logs[i].event_type = "driving"
                             THEN inshift(i) ELSE 0])
        e == hos.result.errors
    IN  (hos.pc # "idle" /\ breaks = {})
            => /\ hos.result.driving_since_last_break_hours = Round2(driving)
               /\ driving >= 8 * Hour
                     => /\ hos.result.time_until_break_required = 0
                        /\ \E k \in DOMAIN e :
                              e[k] \in {"Mandatory break required.",
                                        "Mandatory break required, currently driving."}

====
